---- MODULE Spec2Model ----
(***************************************************************************)
(* Model of gnutls/validators.py (validator registry, validator classes,   *)
(* argument checking decorators, preserve_signature) and of                 *)
(* gnutls/constants.py (GNUTLSConstant and the module-level constants).     *)
(*                                                                         *)
(* Python objects are records [cls, txt, num, items]:                      *)
(*   cls   the name of the object's class ("int", "tuple", "type", ...),      *)
(*   txt   the characters of a str / bytes value, or the __name__ of a      *)
(*         class object, as a sequence of one-character strings,           *)
(*   num   the integer value of an int / bool / GNUTLSConstant,            *)
(*   items the elements of a tuple / list, or the attributes of an         *)
(*         instance (one_of.type, list_of.type, Validator.type).           *)
(* Texts (names, source code) are sequences of one-character strings, so   *)
(* that indexing, searching and parsing are computed as the code does.     *)
(***************************************************************************)
EXTENDS Integers, Sequences, FiniteSets, TLC

VARIABLES registered, loaded, phase, built, factory, wrapper, call,
          typ, value, got, library, exported, loadErr

vars == <<registered, loaded, phase, built, factory, wrapper, call,
          typ, value, got, library, exported, loadErr>>

\* ------------------------------------------------------------------ bounds

\* longest specification list given to function_args / method_args
MaxSpecs == 2
\* longest tuple used as a type specification
MaxTupleLen == 2
\* largest integer a native library symbol is bound to
MaxNative == 2

\* ------------------------------------------------------------- Python objects

Obj(c, t, n, it) == [cls |-> c, txt |-> t, num |-> n, items |-> it]

PyInt(n) == Obj("int", <<>>, n, <<>>)
PyBool(b) == Obj("bool", <<>>, IF b THEN 1 ELSE 0, <<>>)
PyStr(t) == Obj("str", t, 0, <<>>)
PyBytes(t) == Obj("bytes", t, 0, <<>>)
None == Obj("NoneType", <<>>, 0, <<>>)
PyTuple(it) == Obj("tuple", <<>>, 0, it)
PyList(it) == Obj("list", <<>>, 0, it)
Class(name) == Obj("type", name, 0, <<>>)

\* the __name__ of the classes the model uses
ClassName(c) ==
    CASE c = "int" -> <<"i","n","t">>
      [] c = "bool" -> <<"b","o","o","l">>
      [] c = "str" -> <<"s","t","r">>
      [] c = "bytes" -> <<"b","y","t","e","s">>
      [] c = "NoneType" -> <<"N","o","n","e","T","y","p","e">>
      [] c = "tuple" -> <<"t","u","p","l","e">>
      [] c = "list" -> <<"l","i","s","t">>
      [] c = "type" -> <<"t","y","p","e">>
      [] c = "object" -> <<"o","b","j","e","c","t">>
      [] c = "_empty" -> <<"_","e","m","p","t","y">>
      [] OTHER -> <<c>>

\* the classes an instance of class c is an instance of (its __mro__)
Mro(c) ==
    CASE c = "bool" -> {"bool", "int", "object"}
      [] c = "GNUTLSConstant" -> {"GNUTLSConstant", "int", "object"}
      [] c \in {"TypeValidator", "IgnoringValidator", "OneOfValidator",
                "ListOfValidator", "ComplexValidator"} -> {c, "Validator", "object"}
      [] c = "MultiTypeValidator" ->
            {"MultiTypeValidator", "TypeValidator", "Validator", "object"}
      [] OTHER -> {c, "object"}

int == Class(ClassName("int"))
bool == Class(ClassName("bool"))
str == Class(ClassName("str"))
bytes == Class(ClassName("bytes"))
tuple == Class(ClassName("tuple"))
list == Class(ClassName("list"))

\* isinstance(value, t) for a class t or a tuple of classes t
RECURSIVE isinstance(_, _)
isinstance(v, t) ==
    IF t.cls = "type"
    THEN t.txt \in {ClassName(c) : c \in Mro(v.cls)}
    ELSE \E i \in 1..Len(t.items) : isinstance(v, t.items[i])

\* a == b of Python for the objects of the model
RECURSIVE PyEq(_, _)
PyEq(a, b) ==
    LET numeric == {"int", "bool", "GNUTLSConstant"} IN
    IF a.cls \in numeric /\ b.cls \in numeric THEN a.num = b.num
    ELSE IF a.cls # b.cls THEN FALSE
    ELSE IF a.cls \in {"tuple", "list"}
         THEN /\ Len(a.items) = Len(b.items)
              /\ \A i \in 1..Len(a.items) : PyEq(a.items[i], b.items[i])
    ELSE a = b

\* PyIn comparing by identity alone
PyInIdentity(v, container) == \E i \in 1..Len(container.items) : container.items[i] = v

\* value in container, for a tuple or list container
PyIn(v, container) == \E i \in 1..Len(container.items) : PyEq(container.items[i], v)

\* ------------------------------------------------------------ validators.py

isclass(obj) == obj.cls = "type"

none == Class(ClassName("NoneType"))

ignore == Obj("ignore", <<>>, 0, <<>>)

\* an exception raised instead of a result
Raise(exc) == Obj("raise", <<exc>>, 0, <<>>)
IsRaise(o) == o.cls = "raise"

one_of(args) ==
    IF Len(args) < 2 THEN Raise("ValueError")
    ELSE Obj("one_of", <<>>, 0, <<PyTuple(args)>>)

list_of(args) ==
    IF \E i \in 1..Len(args) : ~isclass(args[i]) THEN Raise("TypeError")
    ELSE IF Len(args) = 1 THEN Obj("list_of", <<>>, 0, <<args[1]>>)
    ELSE Obj("list_of", <<>>, 0, <<PyTuple(args)>>)

\* the attribute .type of a one_of, list_of or Validator instance
TypeOf(o) == o.items[1]

\* the registrations with ComplexValidator registered before MultiTypeValidator
RegistrationOrderComplexEarly ==
    <<"IgnoringValidator", "TypeValidator", "ComplexValidator",
      "OneOfValidator", "ListOfValidator", "MultiTypeValidator">>

\* the statements Validator.register(...) of the module body, in their order
RegistrationOrder ==
    <<"IgnoringValidator", "TypeValidator", "MultiTypeValidator",
      "OneOfValidator", "ListOfValidator", "ComplexValidator">>

RECURSIVE get(_, _), can_validate(_, _, _), New(_, _, _)

\* validator.can_validate(obj) of each validator class
can_validate(reg, validator, obj) ==
    CASE validator = "IgnoringValidator" -> obj = ignore
      [] validator = "TypeValidator" -> isclass(obj)
      [] validator = "MultiTypeValidator" ->
            /\ obj.cls = "tuple"
            /\ ~ \E i \in 1..Len(obj.items) : ~isclass(obj.items[i])
      [] validator = "OneOfValidator" -> obj.cls = "one_of"
      [] validator = "ListOfValidator" -> obj.cls = "list_of"
      [] validator = "ComplexValidator" ->
            /\ obj.cls = "tuple"
            /\ ~ \E i \in 1..Len(obj.items) : get(reg, obj.items[i]) = None
      [] OTHER -> FALSE

\* validator(typ): the __init__ of each validator class
New(reg, validator, t) ==
    CASE validator = "IgnoringValidator" -> Obj(validator, <<>>, 0, <<none>>)
      [] validator \in {"OneOfValidator", "ListOfValidator"} ->
            Obj(validator, <<>>, 0, <<TypeOf(t)>>)
      [] validator = "ComplexValidator" ->
            Obj(validator, <<>>, 0,
                <<PyList([i \in 1..Len(t.items) |-> get(reg, t.items[i])])>>)
      [] OTHER -> Obj(validator, <<>>, 0, <<t>>)

\* the scan taking the registered classes from the last one back
RECURSIVE ScanLastFirst(_, _, _)
ScanLastFirst(reg, i, t) ==
    IF i > Len(reg) THEN None
    ELSE IF can_validate(reg, reg[Len(reg) + 1 - i], t)
         THEN New(reg, reg[Len(reg) + 1 - i], t)
    ELSE ScanLastFirst(reg, i + 1, t)

\* the scan of Validator.get over the registered classes, from index i on
RECURSIVE Scan(_, _, _)
Scan(reg, i, t) ==
    IF i > Len(reg) THEN None
    ELSE IF can_validate(reg, reg[i], t) THEN New(reg, reg[i], t)
    ELSE Scan(reg, i + 1, t)

get(reg, t) == Scan(reg, 1, t)

\* validator.check(value) of each validator class
RECURSIVE check(_, _)
check(validator, v) ==
    CASE validator.cls = "IgnoringValidator" -> TRUE
      [] validator.cls \in {"TypeValidator", "MultiTypeValidator"} ->
            isinstance(v, TypeOf(validator))
      [] validator.cls = "OneOfValidator" -> PyIn(v, TypeOf(validator))
      [] validator.cls = "ListOfValidator" ->
            /\ isinstance(v, PyTuple(<<tuple, list>>))
            /\ ~ \E i \in 1..Len(v.items) : ~isinstance(v.items[i], TypeOf(validator))
      [] validator.cls = "ComplexValidator" ->
            LET ts == TypeOf(validator).items IN
            Cardinality({i \in 1..Len(ts) : check(ts[i], v)}) # 0
      [] OTHER -> FALSE

\* ----------------------------------------------------------------- texts

\* the characters of the decimal numeral of n
RECURSIVE Digits(_)
Digits(n) ==
    LET d == <<"0","1","2","3","4","5","6","7","8","9">> IN
    IF n < 0 THEN <<"-">> \o Digits(0 - n)
    ELSE IF n < 10 THEN <<d[n + 1]>>
    ELSE Digits(n \div 10) \o <<d[(n % 10) + 1]>>

\* sep.join(texts)
RECURSIVE Join(_, _)
Join(sep, texts) ==
    IF Len(texts) = 0 THEN <<>>
    ELSE IF Len(texts) = 1 THEN texts[1]
    ELSE texts[1] \o sep \o Join(sep, Tail(texts))

\* sub in s
Contains(sub, s) ==
    \E i \in 1..(Len(s) - Len(sub) + 1) : SubSeq(s, i, i + Len(sub) - 1) = sub

\* s.startswith(prefix)
StartsWith(s, prefix) ==
    Len(s) >= Len(prefix) /\ SubSeq(s, 1, Len(prefix)) = prefix

\* s.replace(old, new), old not empty
RECURSIVE Replace(_, _, _)
Replace(s, old, new) ==
    IF Len(s) < Len(old) THEN s
    ELSE IF SubSeq(s, 1, Len(old)) = old
         THEN new \o Replace(SubSeq(s, Len(old) + 1, Len(s)), old, new)
    ELSE <<s[1]>> \o Replace(Tail(s), old, new)

\* repr(obj)
RECURSIVE Repr(_)
Repr(o) ==
    LET inner == Join(<<",", " ">>, [i \in 1..Len(o.items) |-> Repr(o.items[i])]) IN
    CASE o.cls = "int" -> Digits(o.num)
      [] o.cls = "bool" -> IF o.num = 1 THEN <<"T","r","u","e">>
                           ELSE <<"F","a","l","s","e">>
      [] o.cls = "str" -> <<"'">> \o o.txt \o <<"'">>
      [] o.cls = "bytes" -> <<"b", "'">> \o o.txt \o <<"'">>
      [] o.cls = "NoneType" -> <<"N","o","n","e">>
      [] o.cls = "GNUTLSConstant" -> o.txt
      [] o.cls = "tuple" ->
            IF Len(o.items) = 1 THEN <<"(">> \o inner \o <<",", ")">>
            ELSE <<"(">> \o inner \o <<")">>
      [] o.cls = "list" -> <<"[">> \o inner \o <<"]">>
      [] o.cls = "type" -> <<"<","c","l","a","s","s"," ","'">> \o o.txt \o <<"'", ">">>
      [] OTHER -> <<"<">> \o ClassName(o.cls) \o <<" ","o","b","j","e","c","t",">">>

\* a text, or the exception raised instead of it
Text(s) == [err |-> "", s |-> s]
Fail(exc) == [err |-> exc, s |-> <<>>]

\* the opening quote character of the format of OneOfValidator.name (a grave
\* accent), written as a word
Grave == "grave"

\* the format of OneOfValidator.name, grave accent + %r + apostrophe, applied
\* to e: a tuple e is the argument list of the format
Quoted(e) ==
    IF e.cls = "tuple"
    THEN IF Len(e.items) = 1
         THEN Text(<<Grave>> \o Repr(e.items[1]) \o <<"'">>)
         ELSE Fail("TypeError")
    ELSE Text(<<Grave>> \o Repr(e) \o <<"'">>)

\* Validator.join_names(names) for a list of names
join_names(names) ==
    IF Len(names) <= 2 THEN Join(<<" ","o","r"," ">>, names)
    ELSE Join(<<" ","o","r"," ">>,
              <<Join(<<",", " ">>, SubSeq(names, 1, Len(names) - 1)), names[Len(names)]>>)

\* Validator._type_names(self)
type_names(self) ==
    LET fix(n) == Replace(n, ClassName("NoneType"), <<"N","o","n","e">>)
        t == TypeOf(self)
    IN IF isinstance(t, tuple)
       THEN join_names([i \in 1..Len(t.items) |-> fix(t.items[i].txt)])
       ELSE fix(t.txt)

\* the property name of each validator class
RECURSIVE name(_)
name(self) ==
    CASE self.cls = "OneOfValidator" ->
            LET es == TypeOf(self).items
                qs == [i \in 1..Len(es) |-> Quoted(es[i])]
            IN IF \E i \in 1..Len(qs) : qs[i].err # ""
               THEN Fail(qs[CHOOSE i \in 1..Len(qs) :
                            qs[i].err # "" /\ \A j \in 1..(i - 1) : qs[j].err = ""].err)
               ELSE Text(<<"o","n","e"," ","o","f"," ">>
                         \o join_names([i \in 1..Len(qs) |-> qs[i].s]))
      [] self.cls = "ListOfValidator" ->
            Text(<<"a"," ","l","i","s","t"," ","o","f"," ">> \o type_names(self))
      [] self.cls = "ComplexValidator" ->
            LET ts == TypeOf(self).items
                ns == [i \in 1..Len(ts) |-> name(ts[i])]
            IN IF \E i \in 1..Len(ns) : ns[i].err # ""
               THEN Fail(ns[CHOOSE i \in 1..Len(ns) :
                            ns[i].err # "" /\ \A j \in 1..(i - 1) : ns[j].err = ""].err)
               ELSE Text(join_names([i \in 1..Len(ns) |-> ns[i].s]))
      [] OTHER ->
            LET n == type_names(self) IN
            IF StartsWith(n, <<"N","o","n","e">>) THEN Text(n)
            ELSE IF Len(n) = 0 THEN Fail("IndexError")
            ELSE IF n[1] \in {"a", "e", "i", "o", "u"} THEN Text(<<"a","n"," ">> \o n)
            ELSE Text(<<"a"," ">> \o n)

\* ------------------------------------------------- resolution of one specification

\* the specifications a caller writes without a tuple
BaseSpecs ==
    {int, str, none, ignore, PyInt(5),
     one_of(<<PyInt(1), PyInt(2), PyInt(3)>>),
     list_of(<<int>>), list_of(<<int, str>>)}

\* the tuples of at most MaxTupleLen elements of S
TuplesOf(S) == UNION {{PyTuple(it) : it \in [1..n -> S]} : n \in 0..MaxTupleLen}

\* specifications: plain ones, tuples of them, and tuples holding nested tuples
Specs == BaseSpecs \cup TuplesOf(BaseSpecs \cup TuplesOf({bool, PyInt(5)}))

Values ==
    {PyInt(2), PyInt(4), PyBool(TRUE), PyStr(<<"x">>), PyBytes(<<"x">>), None,
     PyList(<<PyInt(1), PyInt(2), PyInt(3)>>), PyList(<<PyInt(1), PyStr(<<"x">>)>>),
     PyTuple(<<>>)}

\* Validator.register(validator)
register(validator) == registered' = Append(registered, validator)

\* the module body of validators.py: the registrations, one statement a step
LoadValidators ==
    /\ loaded < Len(RegistrationOrder)
    /\ register(RegistrationOrder[loaded + 1])
    /\ loaded' = loaded + 1
    /\ UNCHANGED <<phase, built, factory, wrapper, call, typ, value, got,
                   library, exported, loadErr>>

\* Validator.get(typ) called on a specification
Resolve ==
    /\ loaded = Len(RegistrationOrder)
    /\ phase = "start"
    /\ \E t \in Specs, v \in Values :
          /\ typ' = t
          /\ value' = v
          /\ got' = get(registered, t)
    /\ phase' = "resolved"
    /\ UNCHANGED <<registered, loaded, built, factory, wrapper, call,
                   library, exported, loadErr>>

\* validator.check(value) called on the validator resolved
Check ==
    /\ phase = "resolved"
    /\ got # None
    /\ got' = PyBool(check(got, value))
    /\ phase' = "checked"
    /\ UNCHANGED <<registered, loaded, built, factory, wrapper, call, typ, value,
                   library, exported, loadErr>>

InitResolve ==
    /\ registered = <<>>
    /\ loaded = 0
    /\ phase = "start"
    /\ typ = None
    /\ value = None
    /\ got = None
    /\ built = None
    /\ factory = None
    /\ wrapper = None
    /\ call = None
    /\ library = <<>>
    /\ exported = <<>>
    /\ loadErr = ""

NextResolve == LoadValidators \/ Resolve \/ Check

SpecResolve == InitResolve /\ [][NextResolve]_vars

\* ------------------------------------------------------------ claims C5, C6, C7

\* the precedence order the specification states
Precedence ==
    <<"IgnoringValidator", "TypeValidator", "MultiTypeValidator",
      "OneOfValidator", "ListOfValidator", "ComplexValidator">>

\* the place in Precedence of the earliest variant accepting t, 0 when none does
FirstAccepting(t) ==
    LET acc == {i \in 1..Len(Precedence) : can_validate(Precedence, Precedence[i], t)}
    IN IF acc = {} THEN 0 ELSE CHOOSE i \in acc : \A j \in acc : i <= j

\* C5: once the module is loaded the registry holds Ignore, SingleType,
\* UnionOfTypes, OneOf, ListOf, Union(nested) in that order, and Validator.get(spec)
\* is None when no variant accepts spec and otherwise an instance of the earliest
\* accepting variant, constructed from spec
C5_FirstMatchWins ==
    /\ loaded = Len(RegistrationOrder) => registered = Precedence
    /\ phase = "resolved" =>
          IF FirstAccepting(typ) = 0 THEN got = None
          ELSE /\ got.cls = Precedence[FirstAccepting(typ)]
               /\ got = New(Precedence, got.cls, typ)

\* a specification two variants accept was resolved to the earlier of them
C5_Witness ==
    /\ phase = "resolved"
    /\ typ = PyTuple(<<int, str>>)
    /\ can_validate(registered, "ComplexValidator", typ)
    /\ got.cls = "MultiTypeValidator"

IsTupleOfTypes(t) ==
    t.cls = "tuple" /\ \A i \in 1..Len(t.items) : t.items[i].cls = "type"

\* C6: a tuple whose elements are all plain types resolves to MultiTypeValidator,
\* and on every value its check equals the check of the ComplexValidator built
\* from the same tuple
C6_TupleOfTypesPrecedence ==
    (phase = "resolved" /\ IsTupleOfTypes(typ)) =>
        /\ got.cls = "MultiTypeValidator"
        /\ \A v \in Values :
              check(got, v) = check(New(registered, "ComplexValidator", typ), v)

\* (int, str) was resolved, and its check accepts one value and rejects another
C6_Witness ==
    /\ phase = "resolved"
    /\ typ = PyTuple(<<int, str>>)
    /\ check(got, PyInt(2))
    /\ ~check(got, None)

\* the reference table of check, by the shape of the specification
RECURSIVE Conforms(_, _)
Conforms(t, v) ==
    CASE t = ignore -> TRUE
      [] t.cls = "type" -> isinstance(v, t)
      [] t.cls = "one_of" ->
            \E i \in 1..Len(TypeOf(t).items) : PyEq(TypeOf(t).items[i], v)
      [] t.cls = "list_of" ->
            /\ v.cls \in {"list", "tuple"}
            /\ \A i \in 1..Len(v.items) : isinstance(v.items[i], TypeOf(t))
      [] t.cls = "tuple" /\ IsTupleOfTypes(t) ->
            \E i \in 1..Len(t.items) : isinstance(v, t.items[i])
      [] t.cls = "tuple" /\ ~IsTupleOfTypes(t) ->
            \E i \in 1..Len(t.items) : Conforms(t.items[i], v)
      [] OTHER -> FALSE

\* C7: the check of the validator resolved for a specification returns true
\* exactly when the value conforms to the specification by the reference table
C7_CheckSemantics ==
    phase = "checked" => got = PyBool(Conforms(typ, value))

\* list_of(int) rejected [1, "x"]
C7_Witness ==
    /\ phase = "checked"
    /\ typ = list_of(<<int>>)
    /\ value = PyList(<<PyInt(1), PyStr(<<"x">>)>>)
    /\ got = PyBool(FALSE)

\* -------------------------------------------------------------- constants.py

\* __all__
all_names ==
    <<<<"C","R","E","D","_","C","E","R","T","I","F","I","C","A","T","E">>,
      <<"C","R","E","D","_","A","N","O","N">>,
      <<"X","5","0","9","_","F","M","T","_","D","E","R">>,
      <<"X","5","0","9","_","F","M","T","_","P","E","M">>,
      <<"C","E","R","T","_","R","E","Q","U","E","S","T">>,
      <<"C","E","R","T","_","R","E","Q","U","I","R","E">>,
      <<"S","H","U","T","_","R","D","W","R">>,
      <<"S","H","U","T","_","W","R">>>>

\* __name_map__
name_map ==
    (<<"P","R","O","T","O","_","T","L","S","1","_","2">> :> <<"T","L","S","1","_","2">>)
    @@ (<<"P","R","O","T","O","_","T","L","S","1","_","1">> :> <<"T","L","S","1","_","1">>)
    @@ (<<"P","R","O","T","O","_","T","L","S","1","_","0">> :> <<"T","L","S","1","_","0">>)
    @@ (<<"P","R","O","T","O","_","S","S","L","3">> :> <<"S","S","L","3">>)
    @@ (<<"C","R","E","D","_","C","E","R","T","I","F","I","C","A","T","E">>
          :> <<"C","R","D","_","C","E","R","T","I","F","I","C","A","T","E">>)
    @@ (<<"C","R","E","D","_","A","N","O","N">> :> <<"C","R","D","_","A","N","O","N">>)

\* 'GNUTLS_' + symbol
Native(symbol) == <<"G","N","U","T","L","S","_">> \o symbol

\* the lookup without the override table
name_map_skipped(n) == n

\* __name_map__.get(name, name)
name_map_get(n) == IF n \in DOMAIN name_map THEN name_map[n] ELSE n

\* GNUTLSConstant(name), with lib the symbols of gnutls.library.constants and
\* bound telling whether the module global "constants" is still bound
GNUTLSConstant(n, lib, bound) ==
    LET gnutls_name == Native(name_map_get(n)) IN
    IF ~bound THEN Raise("NameError")
    ELSE IF gnutls_name \notin DOMAIN lib THEN Raise("AttributeError")
    ELSE Obj("GNUTLSConstant", n, lib[gnutls_name], <<>>)

\* the statements of the module body after the import: one assignment for each
\* name of __all__, then the two del statements
ModuleDone == Len(all_names) + 1

\* the module global "constants" is bound until "del constants"
ConstantsBound == loaded < ModuleDone

\* the native symbols every library of the model exports, each bound to 1
FixedSymbols ==
    {Native(all_names[i]) : i \in 3..(Len(all_names) - 1)}

\* the native symbols a library of the model may lack or bind to any value: the
\* two credential symbols under their native names, one of them under its
\* logical name as well, one plain symbol and one protocol symbol
VaryingSymbols ==
    {Native(name_map[all_names[1]]), Native(name_map[all_names[2]]),
     Native(all_names[2]), Native(all_names[Len(all_names)]),
     Native(<<"T","L","S","1","_","2">>)}

\* the native libraries: gnutls.library.constants as a function from the names
\* of its symbols to their values
Libraries ==
    {[x \in FixedSymbols \cup DOMAIN f |-> IF x \in DOMAIN f THEN f[x] ELSE 1] :
        f \in UNION {[S -> 0..MaxNative] : S \in SUBSET VaryingSymbols}}

\* the logical names callers construct constants from once the module is loaded
LogicalNames ==
    {all_names[1], all_names[2], all_names[3], <<"P","R","O","T","O","_","T","L","S","1","_","2">>}

\* one statement of the generated module body: name = GNUTLSConstant('name')
LoadConstant ==
    /\ loaded < Len(all_names)
    /\ loadErr = ""
    /\ LET c == GNUTLSConstant(all_names[loaded + 1], library, ConstantsBound) IN
       IF IsRaise(c)
       THEN /\ loadErr' = c.txt[1]
            /\ UNCHANGED <<exported, loaded>>
       ELSE /\ exported' = Append(exported, c)
            /\ loaded' = loaded + 1
            /\ UNCHANGED loadErr
    /\ UNCHANGED <<registered, phase, built, factory, wrapper, call, typ, value,
                   got, library>>

\* del code; del constants
DelConstants ==
    /\ loaded = Len(all_names)
    /\ loaded' = ModuleDone
    /\ UNCHANGED <<registered, phase, built, factory, wrapper, call, typ, value,
                   got, library, exported, loadErr>>

\* GNUTLSConstant(name) called by a user of the loaded module
MakeConstant ==
    /\ loaded = ModuleDone
    /\ phase = "start"
    /\ \E n \in LogicalNames :
          /\ typ' = PyStr(n)
          /\ got' = GNUTLSConstant(n, library, ConstantsBound)
    /\ phase' = "made"
    /\ UNCHANGED <<registered, loaded, built, factory, wrapper, call, value,
                   library, exported, loadErr>>

InitConst ==
    /\ registered = <<>>
    /\ loaded = 0
    /\ phase = "start"
    /\ typ = None
    /\ value = None
    /\ got = None
    /\ built = None
    /\ factory = None
    /\ wrapper = None
    /\ call = None
    /\ library \in Libraries
    /\ exported = <<>>
    /\ loadErr = ""

NextConst == LoadConstant \/ DelConstants \/ MakeConstant

SpecConst == InitConst /\ [][NextConst]_vars

\* ------------------------------------------------------------------- claim C9

\* the native symbol the claim names for a logical name
ClaimedSymbol(n) ==
    LET overrides == {all_names[1], all_names[2]} \cup DOMAIN name_map IN
    IF n \in overrides THEN Native(name_map[n]) ELSE Native(n)

\* the constants constructed so far: the exported ones and the one a user made
Constructed ==
    {exported[i] : i \in 1..Len(exported)}
        \cup (IF phase = "made" /\ ~IsRaise(got) THEN {got} ELSE {})

\* C9: every constant constructed has the value of the native symbol
\* 'GNUTLS_' + override[name] (or 'GNUTLS_' + name without an override) and
\* displays its logical name; the load fails at the first name of __all__ whose
\* native symbol is missing, and a user's construction from a name without a
\* native symbol fails; CRED_CERTIFICATE and CRED_ANON differ whenever
\* CRD_CERTIFICATE and CRD_ANON do
C9_ConstantResolution ==
    /\ \A c \in Constructed :
          /\ ClaimedSymbol(c.txt) \in DOMAIN library
          /\ c.num = library[ClaimedSymbol(c.txt)]
          /\ Repr(c) = c.txt
    /\ \A i \in 1..Len(exported) : exported[i].txt = all_names[i]
    /\ Len(exported) = IF loaded < Len(all_names) THEN loaded ELSE Len(all_names)
    /\ (loadErr # "") =>
          /\ loadErr = "AttributeError"
          /\ loaded < Len(all_names)
          /\ ClaimedSymbol(all_names[loaded + 1]) \notin DOMAIN library
    /\ (loaded < Len(all_names) /\ loadErr = "") => ENABLED LoadConstant
    /\ (phase = "made" /\ ClaimedSymbol(typ.txt) \notin DOMAIN library) => IsRaise(got)
    /\ (Len(exported) >= 2
        /\ library[Native(<<"C","R","D","_","C","E","R","T","I","F","I","C","A","T","E">>)] # library[Native(<<"C","R","D","_","A","N","O","N">>)])
          => exported[1].num # exported[2].num

\* the module loaded from a library that binds GNUTLS_CRED_ANON and
\* GNUTLS_CRD_ANON to different values, and CRED_ANON took the latter
C9_Witness ==
    /\ loaded = ModuleDone
    /\ Native(all_names[2]) \in DOMAIN library
    /\ library[Native(all_names[2])] # library[Native(name_map[all_names[2]])]
    /\ exported[2].num = library[Native(name_map[all_names[2]])]
    /\ exported[2].txt = all_names[2]
    /\ exported[1].num # exported[2].num

\* ------------------------------------------------------ callables and str / eval

\* inspect.Parameter.empty, the default of a parameter that has none
Empty == Class(ClassName("_empty"))

Param(n, d) == [name |-> n, default |-> d]

\* a callable: its __name__, its __doc__ and its positional parameters
Func(n, d, ps) == [name |-> n, doc |-> d, params |-> ps]

\* str(obj)
StrOf(o) ==
    CASE o.cls = "str" -> o.txt
      [] o = Empty -> <<"<","c","l","a","s","s"," ","'","i","n","s","p","e","c","t",".","_","e","m","p","t","y","'",">">>
      [] OTHER -> Repr(o)

DigitChars == {"0","1","2","3","4","5","6","7","8","9"}

LetterChars ==
    {"a","b","c","d","e","f","g","h","i","j","k","l","m","n","o","p","q","r","s",
     "t","u","v","w","x","y","z","A","B","C","D","E","F","G","H","I","J","K","L",
     "M","N","O","P","Q","R","S","T","U","V","W","X","Y","Z","_"}

\* the value of a decimal numeral
RECURSIVE ParseInt(_)
ParseInt(t) ==
    IF Len(t) = 0 THEN 0
    ELSE LET d == CHOOSE k \in 0..9 : Digits(k) = <<t[Len(t)]>> IN
         10 * ParseInt(SubSeq(t, 1, Len(t) - 1)) + d

IsNumeral(t) ==
    /\ Len(t) > 0
    /\ \A i \in 1..Len(t) : t[i] \in DigitChars
    /\ (Len(t) > 1 => t[1] # "0")

IsIdentifier(t) ==
    /\ Len(t) > 0
    /\ t[1] \in LetterChars
    /\ \A i \in 1..Len(t) : t[i] \in LetterChars \cup DigitChars

IsBytesLiteral(t) ==
    /\ Len(t) >= 3
    /\ t[1] = "b" /\ t[2] = "'" /\ t[Len(t)] = "'"
    /\ \A i \in 3..(Len(t) - 1) : t[i] \in LetterChars \cup DigitChars

\* the names of builtins a default expression can name
BuiltinClasses == {ClassName(c) : c \in {"int", "str", "bytes", "bool", "list", "tuple"}}

\* the value of the expression t of a generated def statement, evaluated with
\* the constants env imported into its globals
Eval(t, env) ==
    IF IsNumeral(t) THEN PyInt(ParseInt(t))
    ELSE IF t = <<"N","o","n","e">> THEN None
    ELSE IF t = <<"T","r","u","e">> THEN PyBool(TRUE)
    ELSE IF t = <<"F","a","l","s","e">> THEN PyBool(FALSE)
    ELSE IF IsBytesLiteral(t) THEN PyBytes(SubSeq(t, 3, Len(t) - 1))
    ELSE IF IsIdentifier(t)
         THEN IF \E c \in env : c.txt = t THEN CHOOSE c \in env : c.txt = t
              ELSE IF t \in BuiltinClasses THEN Class(t)
              ELSE Raise("NameError")
    ELSE Raise("SyntaxError")

\* ------------------------------------------------------- preserve_signature

\* the constants of gnutls.constants, loaded from a library that has them all
FullLibrary ==
    [x \in FixedSymbols \cup VaryingSymbols |->
        IF x = Native(name_map[all_names[2]]) THEN 2 ELSE 1]

Constants == [i \in 1..Len(all_names) |-> GNUTLSConstant(all_names[i], FullLibrary, TRUE)]

CRED_ANON == Constants[2]

\* the list "signature" of preserve_signature: one entry for each parameter,
\* its name alone or name=str(default)
SignatureOf(func) ==
    [i \in 1..Len(func.params) |->
        LET text == StrOf(func.params[i].default) IN
        IF Contains(<<"e","m","p","t","y">>, text)
        THEN [name |-> func.params[i].name, has |-> FALSE, text |-> <<>>]
        ELSE [name |-> func.params[i].name, has |-> TRUE, text |-> text]]

\* fix_signature(wrapper) of preserve_signature(func): the function the
\* generated def statement defines, with the attributes copied from func, or
\* the exception the exec raises. The import of the constants is visible to the
\* def statement, as it is where locals() returns the one dictionary of the
\* frame (CPython up to 3.12).
preserve_signature(func) ==
    LET defaults == {func.params[i].default : i \in 1..Len(func.params)}
        constants == {c \in defaults : isinstance(c, Class(<<"GNUTLSConstant">>))}
        env == {c \in constants : \E i \in 1..Len(exported) : exported[i] = c}
        signature == SignatureOf(func)
        n == Len(signature)
        evaluated(i) == IF signature[i].has THEN Eval(signature[i].text, env) ELSE Empty
        syntax == \/ \E i \in 1..n : evaluated(i) = Raise("SyntaxError")
                  \/ \E i \in 1..n, j \in 1..n :
                        i < j /\ signature[i].has /\ ~signature[j].has
    IN IF constants # env THEN [err |-> "ImportError", func |-> func, w |-> func]
       ELSE IF syntax THEN [err |-> "SyntaxError", func |-> func, w |-> func]
       ELSE IF \E i \in 1..n : IsRaise(evaluated(i))
            THEN [err |-> "NameError", func |-> func, w |-> func]
       ELSE [err |-> "", func |-> func,
             w |-> Func(func.name, func.doc,
                        [i \in 1..n |-> Param(signature[i].name, evaluated(i))])]

\* -------------------------------------------------- argument checking decorators

\* the positional arguments a call binds to params, or the TypeError of a call
\* that gives too many arguments or leaves a parameter without default unbound
Bind(params, args) ==
    IF Len(args) > Len(params) THEN Raise("TypeError")
    ELSE IF \E i \in (Len(args) + 1)..Len(params) : params[i].default = Empty
         THEN Raise("TypeError")
    ELSE PyTuple([i \in 1..Len(params) |->
                    IF i <= Len(args) THEN args[i] ELSE params[i].default])

\* _callable_args keeping None for a specification no validator accepts
callable_args_deferred(args, start, kind) ==
    [made |-> TRUE, kind |-> kind, start |-> start, specs |-> args,
     validators |-> [i \in 1..Len(args) |-> get(registered, args[i])], err |-> ""]

\* the body of _callable_args: the validators of the specifications args, or
\* the TypeError raised at the first specification no validator accepts
callable_args(args, start, kind) ==
    LET validators == [i \in 1..Len(args) |-> get(registered, args[i])] IN
    IF \E i \in 1..Len(args) : validators[i] = None
    THEN [made |-> FALSE, kind |-> kind, start |-> start, specs |-> args,
          validators |-> <<>>, err |-> "TypeError"]
    ELSE [made |-> TRUE, kind |-> kind, start |-> start, specs |-> args,
          validators |-> validators, err |-> ""]

\* the loop of check_args from the validator at index i on, pos the position
\* in func_args (counted from 0) it looks at
RECURSIVE CheckLoop(_, _, _, _)
CheckLoop(validators, i, pos, func_args) ==
    IF i > Len(validators) THEN [err |-> "", checks |-> <<>>]
    ELSE IF pos >= Len(func_args) THEN [err |-> "IndexError", checks |-> <<>>]
    ELSE LET validator == validators[i]
             arg == func_args[pos + 1]
             ok == check(validator, arg)
             nm == IF ~ok /\ isinstance(arg, bytes) THEN name(validator) ELSE Text(<<>>)
             entry == [index |-> i, used |-> validator, pos |-> pos, ok |-> ok]
             rest == CheckLoop(validators, i + 1, pos, func_args)
         IN IF nm.err # "" THEN [err |-> nm.err, checks |-> <<entry>>]
            ELSE [err |-> rest.err, checks |-> <<entry>> \o rest.checks]

\* what a callable of the model returns: the tuple of the arguments it received
Return(func_args) == PyTuple(func_args)

\* a call W(*args) of the wrapper w built by decorator fac around func
check_args(fac, w, args) ==
    LET bound == Bind(w.w.params, args) IN
    IF IsRaise(bound)
    THEN [made |-> TRUE, args |-> args, err |-> "TypeError", checks |-> <<>>,
          received |-> <<>>, result |-> None]
    ELSE LET func_args == bound.items
             loop == CheckLoop(fac.validators, 1, fac.start, func_args)
         IN IF loop.err # ""
            THEN [made |-> TRUE, args |-> args, err |-> loop.err,
                  checks |-> loop.checks, received |-> <<>>, result |-> None]
            ELSE [made |-> TRUE, args |-> args, err |-> "", checks |-> loop.checks,
                  received |-> <<func_args>>, result |-> Return(func_args)]

NoFactory ==
    [made |-> FALSE, kind |-> "", start |-> 0, specs |-> <<>>, validators |-> <<>>,
     err |-> ""]

NoWrapper == [made |-> FALSE, err |-> "", func |-> Func("", "", <<>>),
              w |-> Func("", "", <<>>)]

NoCall == [made |-> FALSE, args |-> <<>>, err |-> "", checks |-> <<>>,
           received |-> <<>>, result |-> None]

\* the specifications given to the decorator factories, next to the one_of and
\* list_of objects the caller constructs
FactorySpecs ==
    {int, str, ignore, PyInt(5), PyTuple(<<>>), PyTuple(<<int, PyInt(5)>>)}

\* the argument lists given to one_of and list_of
ConstructorArgs ==
    {<<PyInt(1)>>, <<PyTuple(<<PyInt(1), PyInt(2)>>), PyInt(3)>>, <<int>>}

\* the specification lists of at most MaxSpecs specifications
SpecLists == UNION {[1..n -> FactorySpecs \cup ({built} \ {None})] : n \in 0..MaxSpecs}

\* the default values of the parameters of the decorated callables
Defaults ==
    {PyInt(1), None, CRED_ANON, PyStr(<<"a","b","c">>), PyStr(<<"1">>),
     PyStr(<<"e","m","p","t","y">>), PyStr(<<>>)}

\* the decorated callables; their names are not names of globals of the
\* validators module, which the exec of fix_signature would rebind
Funcs ==
    {Func("close", "Close.", <<>>),
     Func("send", "Send.", <<Param("a", Empty)>>),
     Func("recv", "", <<Param("a", Empty), Param("b", Empty)>>),
     Func("bye", "Bye.", <<Param("a", PyInt(1)), Param("b", PyStr(<<"e","m","p","t","y">>))>>)}
    \cup {Func("init", "Init.", <<Param("a", Empty), Param("b", d)>>) : d \in Defaults}

\* the values callers pass
ArgValues == {PyInt(1), PyBytes(<<"x">>), PyStr(<<"s">>)}

\* the argument lists that are valid calls of func
ValidCalls(func) ==
    {args \in UNION {[1..n -> ArgValues] : n \in 0..Len(func.params)} :
        ~IsRaise(Bind(func.params, args))}

ValidatorsLoaded == loaded = Len(RegistrationOrder)

\* one_of(*args) or list_of(*args) evaluated by the caller
Construct ==
    /\ ValidatorsLoaded
    /\ factory = NoFactory
    /\ \E args \in ConstructorArgs :
          \/ built' = one_of(args)
          \/ built' = list_of(args)
    /\ UNCHANGED <<registered, loaded, phase, factory, wrapper, call, typ, value,
                   got, library, exported, loadErr>>

\* the factory registering a validator class at each call
FactoryRegistering(args, start, kind) ==
    /\ ValidatorsLoaded
    /\ ~IsRaise(built)
    /\ factory = NoFactory
    /\ factory' = callable_args(args, start, kind)
    /\ registered' = Append(registered, "ComplexValidator")
    /\ built' = None
    /\ wrapper' = NoWrapper
    /\ call' = NoCall
    /\ UNCHANGED <<loaded, phase, typ, value, got, library, exported, loadErr>>

\* _callable_args(*args, _start=start) called through function_args or method_args;
\* the model follows one decorator at a time, from the factory call to a call
\* of a wrapper it builds: no operation writes what another one reads (all of
\* them only read the registry), so interleaving several adds no state
Factory(args, start, kind) ==
    /\ ValidatorsLoaded
    /\ ~IsRaise(built)
    /\ factory = NoFactory
    /\ factory' = callable_args(args, start, kind)
    /\ built' = None
    /\ wrapper' = NoWrapper
    /\ call' = NoCall
    /\ UNCHANGED <<registered, loaded, phase, typ, value, got, library, exported,
                   loadErr>>

function_args == \E args \in SpecLists : Factory(args, 0, "function_args")

\* method_args without the offset of the receiver
method_args_from_zero == \E args \in SpecLists : Factory(args, 0, "method_args")

method_args == \E args \in SpecLists : Factory(args, 1, "method_args")

\* check_args_decorator(func): the decorator applied to a callable
check_args_decorator ==
    /\ factory.made
    /\ wrapper = NoWrapper
    /\ \E func \in Funcs :
          LET fixed == preserve_signature(func) IN
          wrapper' = [made |-> fixed.err = "", err |-> fixed.err,
                      func |-> func, w |-> fixed.w]
    /\ call' = NoCall
    /\ UNCHANGED <<registered, loaded, phase, built, factory, typ, value, got,
                   library, exported, loadErr>>

\* the wrapper called with an argument list that is a valid call of func
CallWrapper ==
    /\ wrapper.made
    /\ call = NoCall
    /\ \E args \in ValidCalls(wrapper.func) :
          call' = check_args(factory, wrapper, args)
    /\ UNCHANGED <<registered, loaded, phase, built, factory, wrapper, typ, value,
                   got, library, exported, loadErr>>

\* the caller lets go of the decorator and of the wrapper built with it; the
\* next factory call starts from the module as loaded
Discard ==
    /\ factory # NoFactory
    /\ factory' = NoFactory
    /\ wrapper' = NoWrapper
    /\ call' = NoCall
    /\ UNCHANGED <<registered, loaded, phase, built, typ, value, got, library,
                   exported, loadErr>>

Init ==
    /\ registered = <<>>
    /\ loaded = 0
    /\ phase = "start"
    /\ typ = None
    /\ value = None
    /\ got = None
    /\ built = None
    /\ factory = NoFactory
    /\ wrapper = NoWrapper
    /\ call = NoCall
    /\ library = FullLibrary
    /\ exported = Constants
    /\ loadErr = ""

Next ==
    \/ LoadValidators
    \/ Construct
    \/ function_args
    \/ method_args
    \/ check_args_decorator
    \/ CallWrapper
    \/ Discard

Spec == Init /\ [][Next]_vars

\* ------------------------------------------- claims C1, C2, C3, C4, C8, C10

\* C1 (as stated): a call of a wrapper that is a valid call of the decorated
\* callable and gives every argument raises no error of the wrapper's own, calls
\* the callable exactly once with the original arguments in their order, and
\* returns the callable's result
C1_PassThrough ==
    (call.made /\ Len(call.args) = Len(wrapper.func.params)) =>
        /\ call.err = ""
        /\ call.received = <<call.args>>
        /\ call.result = Return(call.args)

\* C2 (as stated): in a call that has an argument for every specification and
\* raises nothing, the validator resolved for specification i is applied to the
\* argument at position start + i (i counted from 0) and to no other
C2_PerPosition ==
    (/\ call.made
     /\ call.err = ""
     /\ factory.start + Len(factory.specs) <= Len(wrapper.func.params)) =>
        /\ Len(call.checks) = Len(factory.specs)
        /\ \A k \in 1..Len(call.checks) :
              call.checks[k].pos = factory.start + (call.checks[k].index - 1)

\* C3: the factory raises TypeError exactly when some specification resolves to
\* no validator, and then no wrapper is built and nothing is called; otherwise it
\* raises nothing, its validators are those Validator.get returns for the
\* specifications, and every check of a later call uses one of exactly those
C3_DecorationFailsFast ==
    /\ factory # NoFactory =>
          IF \E i \in 1..Len(factory.specs) : FirstAccepting(factory.specs[i]) = 0
          THEN factory.err = "TypeError" /\ ~factory.made /\ factory.validators = <<>>
          ELSE /\ factory.err = "" /\ factory.made
               /\ Len(factory.validators) = Len(factory.specs)
               /\ \A i \in 1..Len(factory.specs) :
                     factory.validators[i] = get(Precedence, factory.specs[i])
    /\ wrapper # NoWrapper => factory.made
    /\ call.made => wrapper.made
    /\ \A k \in 1..Len(call.checks) :
          call.checks[k].used = get(Precedence, factory.specs[call.checks[k].index])

\* the factory was given a tuple holding an element no validator accepts and
\* raised, so that there is no wrapper
C3_Witness ==
    /\ factory.err = "TypeError"
    /\ factory.specs = <<int, PyTuple(<<int, PyInt(5)>>)>>
    /\ wrapper = NoWrapper
    /\ ~call.made

\* the offset the claim states for each factory
ClaimedStart(kind) == IF kind = "method_args" THEN 1 ELSE 0

\* C4: a check is applied only to an argument at a position p with
\* start <= p < start + n, n the number of specifications and start 0 for
\* function_args, 1 for method_args
C4_CheckedPositionsBounded ==
    \A k \in 1..Len(call.checks) :
        /\ ClaimedStart(factory.kind) <= call.checks[k].pos
        /\ call.checks[k].pos < ClaimedStart(factory.kind) + Len(factory.specs)

\* a method wrapper with one specification was called with a receiver and an
\* argument, and its one check looked at position 1
C4_Witness ==
    /\ call.made
    /\ factory.kind = "method_args"
    /\ Len(factory.specs) = 1
    /\ Len(call.args) = 2
    /\ Len(call.checks) = 1
    /\ call.checks[1].pos = 1

\* C8 (as stated): decorating any callable succeeds, the wrapper has the name,
\* the documentation, the parameter names and the defaults of the callable, and
\* a call that omits defaulted arguments passes the callable the values it
\* would have used undecorated
C8_SignaturePreserved ==
    /\ wrapper # NoWrapper =>
          /\ wrapper.err = ""
          /\ wrapper.w.name = wrapper.func.name
          /\ wrapper.w.doc = wrapper.func.doc
          /\ wrapper.w.params = wrapper.func.params
    /\ (call.made /\ call.err = "") =>
          call.received = <<Bind(wrapper.func.params, call.args).items>>

\* C10: once the six registrations are done no step changes the registry, which
\* is the six variants in registration order
C10_RegistryReadOnly ==
    [][ValidatorsLoaded => (registered' = registered /\ registered = RegistrationOrder)]_vars

\* a wrapper was built and called, its validators checked an argument, and the
\* registry holds the six variants
C10_Witness ==
    /\ call.made
    /\ Len(call.checks) > 0
    /\ Len(registered) = Len(RegistrationOrder)

====
